---- MODULE Spec2Model ----
(***************************************************************************)
(* Model of the trace sampling and two-stage orchestration pipeline of     *)
(* trace-analyst: the deterministic sampler (shuffleArray and the sampling *)
(* step of analyzeDatasetGapsStreaming), the reasoning-stage mapping       *)
(* (selectRelevantTraces) and the POST /api/analyze streaming endpoint.    *)
(*                                                                         *)
(* Text is modelled as a sequence of one-character strings, so that        *)
(* split, join, trim and length are computed and not assumed.              *)
(***************************************************************************)
EXTENDS Integers, Sequences, FiniteSets, TLC

VARIABLES
    reqValid,               \* "ok" | "missing" | "notfound": outcome of the request validation
    tracesContent,          \* the trace corpus text handed to both stages
    maxTracesForReasoning,  \* req.body.maxTracesForReasoning: <<>> (absent) or <<n>>
    pc,                     \* position of the request handler
    httpStatus,             \* 0 until a status line is written
    events,                 \* the events written to the response, in order
    clientDisconnected,     \* the endpoint's cancellation flag
    aborted,                \* abortController.signal.aborted
    selectedTraces,         \* the sample computed by the analysis stage
    fullResponse,           \* the answer text of the analysis call
    words,                  \* fullResponse.split(' ')
    i,                      \* index of the fragment loop (0-based)
    chunks,                 \* the fragments passed to onChunk, in order
    analysisCalls,          \* number of analysis model calls issued
    reasoningCalls,         \* number of reasoning model calls issued
    reasoningSample,        \* tracesForReasoning of the reasoning call, <<>> before
    reasoningResponse,      \* <<>> or <<the settled reasoning call>>
    tracesWithTags,         \* result of selectRelevantTraces
    runs,                   \* outputs of successive runs of the sampling step
    maxResults,             \* req.body.maxResults of /api/batch-job: <<>> (absent) or <<n>>
    batchResponse,          \* <<>> or <<the settled batch call>>
    results,                \* result of runBatchJobAnalysis
    promptInputs,           \* <<>> or <<template and bindings of one prompt rendering>>
    finalPrompt,            \* <<>> or <<the rendered prompt>>
    requests,               \* the handler state of each of two concurrent /api/analyze requests
    jobs,                   \* the client's batch jobs: id -> status, results, error
    selectedJobs,           \* ids of the jobs selected in the client
    isRunningAll,           \* the client's isRunningAll flag
    jobRuns,                \* position of runAllJobs and of each runSingleJob call
    batchJobs,              \* MemStorage.batchJobs: id -> job
    currentBatchJobId,      \* MemStorage.currentBatchJobId
    saveCalls,              \* the saveBatchJobs calls: arguments, position, newJobs
    microtasks              \* the suspended saveBatchJobs calls, in resumption order

vars == <<reqValid, tracesContent, maxTracesForReasoning, pc, httpStatus, events,
          clientDisconnected, aborted, selectedTraces, fullResponse, words, i,
          analysisCalls, reasoningCalls, reasoningSample, reasoningResponse,
          tracesWithTags, runs, maxResults, batchResponse, results, chunks, promptInputs,
          finalPrompt, requests, jobs, selectedJobs, isRunningAll, jobRuns, batchJobs,
          currentBatchJobId, saveCalls, microtasks>>

----------------------------------------------------------------------------
(* Bounds of the model *)

MaxLines == 3          \* lines of an uploaded corpus, endpoint specification
MaxSamplerLines == 4   \* lines of a corpus, sampler specification
MaxAnswerLen == 3      \* characters of a model answer
NumRuns == 2           \* runs of the sampling step that are compared
MaxReasoningLines == 2 \* lines of a small corpus, reasoning specification
MaxItems == 2          \* items of a model-composed selected_traces list
MaxOver == 1           \* lines by which a large corpus exceeds the fallback limit

----------------------------------------------------------------------------
(* Text helpers: JavaScript string operations on character sequences *)

Min(a, b) == IF a < b THEN a ELSE b
Max(a, b) == IF a > b THEN a ELSE b

Whitespace == {" ", "\t"}

\* line.trim() !== ""
TrimNonEmpty(line) == \E k \in 1..Len(line) : line[k] \notin Whitespace

RECURSIVE Split(_, _)
\* s.split(sep) for a one-character separator.  The text is halved and the
\* piece that straddles the cut is put together again, so that the depth of
\* the evaluation grows with the logarithm of the length.
Split(s, sep) ==
    IF Len(s) = 0 THEN << <<>> >>
    ELSE IF Len(s) = 1 THEN (IF s[1] = sep THEN << <<>>, <<>> >> ELSE <<s>>)
    ELSE LET mid   == Len(s) \div 2
             left  == Split(SubSeq(s, 1, mid), sep)
             right == Split(SubSeq(s, mid + 1, Len(s)), sep)
         IN  SubSeq(left, 1, Len(left) - 1)
                 \o <<left[Len(left)] \o right[1]>>
                 \o Tail(right)

RECURSIVE Join(_, _)
\* parts.join(sep), halving the list likewise
Join(parts, sep) ==
    IF Len(parts) = 0 THEN <<>>
    ELSE IF Len(parts) = 1 THEN parts[1]
    ELSE LET mid == Len(parts) \div 2
         IN  Join(SubSeq(parts, 1, mid), sep) \o sep
                 \o Join(SubSeq(parts, mid + 1, Len(parts)), sep)

\* array.slice(0, end) for an integer end
Slice0(array, end) ==
    LET e == IF end < 0 THEN Max(Len(array) + end, 0) ELSE Min(end, Len(array))
    IN  SubSeq(array, 1, e)

\* all sequences over S of length at most n
SeqUpTo(S, n) == UNION {[1..k -> S] : k \in 0..n}

----------------------------------------------------------------------------
(* The deterministic sampler *)

\* one step of the linear-congruential generator: the new value of rng,
\* (rng * 9301 + 49297) % 233280.  The source computes it in doubles, exactly;
\* the product is taken here as (rng * 93) * 100 + rng with the modulus applied
\* between the factors, so that no intermediate value exceeds 32 bits.
seededRandom(rng) ==
    LET r == rng % 233280
    IN  ((((r * 93) % 233280) * 100) + r + 49297) % 233280

\* The pairs <<i + 1, rng>> with i + 1 < 310 for which the double arithmetic of
\* Math.floor((rng / 233280) * (i + 1)) gives one less than the exact quotient:
\* the product is a whole number and rng / 233280 was rounded down.
floorShortfall ==
    {<<45, 67392>>, <<45, 134784>>, <<75, 171072>>, <<90, 33696>>, <<90, 67392>>,
     <<90, 127008>>, <<90, 134784>>, <<90, 163296>>, <<108, 131760>>, <<135, 67392>>,
     <<135, 134784>>, <<150, 85536>>, <<150, 171072>>, <<165, 171072>>,
     <<170, 163296>>, <<180, 16848>>, <<180, 33696>>, <<180, 63504>>, <<180, 67392>>,
     <<180, 81648>>, <<180, 127008>>, <<180, 134784>>, <<180, 141264>>,
     <<180, 149040>>, <<180, 163296>>, <<200, 134136>>, <<216, 65880>>,
     <<216, 119880>>, <<216, 126360>>, <<216, 131760>>, <<216, 137160>>,
     <<225, 119232>>, <<240, 119556>>, <<243, 121920>>, <<270, 33696>>,
     <<270, 67392>>, <<270, 134784>>, <<270, 161568>>, <<285, 171072>>,
     <<300, 42768>>, <<300, 85536>>, <<300, 171072>>}

\* one iteration of the swap loop at the source's 0-based index k: the
\* generator advances and shuffled[k], shuffled[j] change places
shuffleStep(st, k) ==
    LET next == seededRandom(st.rng)
        \* Math.floor((rng / 233280) * (i + 1))
        j == ((next * (k + 1)) \div 233280)
                 - (IF <<k + 1, next>> \in floorShortfall THEN 1 ELSE 0)
    IN  [shuffled |-> [st.shuffled EXCEPT ![k + 1] = st.shuffled[j + 1],
                                          ![j + 1] = st.shuffled[k + 1]],
         rng      |-> next]

RECURSIVE shuffleSteps(_, _, _)
\* the iterations hi, hi - 1, ..., lo in that order.  The range is halved, and
\* the state after the upper half is bound as the element of a singleton set
\* before the lower half runs, so that the depth of the evaluation grows with
\* the logarithm of the length of the range.
shuffleSteps(st, hi, lo) ==
    IF hi < lo THEN st
    ELSE IF hi = lo THEN shuffleStep(st, hi)
    ELSE LET mid == (hi + lo) \div 2
         IN  CHOOSE after \in {shuffleSteps(upper, mid, lo) :
                                  upper \in {shuffleSteps(st, hi, mid + 1)}} : TRUE

\* the backward swap loop: for (let i = k; i > 0; i--)
shuffleLoop(shuffled, rng, k) ==
    shuffleSteps([shuffled |-> shuffled, rng |-> rng], k, 1).shuffled

\* seed is <<>> when the argument is omitted; random is then the value of
\* Math.floor(Math.random() * 1000000)
shuffleArray(array, seed, random) ==
    shuffleLoop(array, IF seed # <<>> THEN seed[1] ELSE random, Len(array) - 1)

\* values Math.floor(Math.random() * 1000000) may take
RandomDraws == {0, 1, 7, 424242, 999999}

\* content.split("\n").filter(line => line.trim() !== "")
Traces(content) == SelectSeq(Split(content, "\n"), TrimNonEmpty)

tracesWithIndexesZeroBased(traces) ==
    [k \in 1..Len(traces) |-> [trace |-> traces[k], originalIndex |-> k - 1]]
tracesWithIndexes(traces) ==
    [k \in 1..Len(traces) |-> [trace |-> traces[k], originalIndex |-> (k - 1) + 1]]

contentSeed(traces) == Len(Join(traces, <<>>)) % 100000

\* the seed argument the sampling step passes to shuffleArray
shuffleSeedOmitted(traces) == <<>>
shuffleSeed(traces) == <<contentSeed(traces)>>

\* the sampling step of analyzeDatasetGapsStreaming
sampleTraces(traces, maxTracesForAnalysis, random) ==
    Slice0(shuffleArray(tracesWithIndexes(traces), shuffleSeed(traces), random),
           Min(maxTracesForAnalysis, Len(traces)))

\* maxTracesForReasoning || 250
boundOrDefault(opt) == IF opt = <<>> \/ opt[1] = 0 THEN 250 ELSE opt[1]

----------------------------------------------------------------------------
(* The reasoning stage: selectRelevantTraces *)

tracesForReasoningLateCut(content, preSelectedTraces, random) ==
    IF Len(preSelectedTraces) > 0
    THEN preSelectedTraces
    ELSE LET allTraces == Traces(content)
         IN  Slice0(shuffleArray(tracesWithIndexes(allTraces),
                                 <<Len(Join(allTraces, <<>>)) % 100000>>, random), 250)

\* traces handed to the reasoning prompt: the pre-selected sample, or the
\* fallback sample over the first 250 traces
tracesForReasoning(content, preSelectedTraces, random) ==
    IF Len(preSelectedTraces) > 0
    THEN preSelectedTraces
    ELSE LET limitedTraces == Slice0(Traces(content), 250)
         IN  shuffleArray(tracesWithIndexes(limitedTraces),
                          <<Len(Join(limitedTraces, <<>>)) % 100000>>, random)

\* if (abortSignal?.aborted) return [] before the request is issued
abortCheckSkipped(signalAborted) == FALSE
abortedBeforeCall(signalAborted) == signalAborted

matchingTraceByPosition(sample, lineNumber) ==
    IF lineNumber \in 1..Len(sample) THEN sample[lineNumber].trace ELSE <<>>

\* tracesForReasoning.find(t => t.originalIndex === lineNumber), then
\* matchingTrace ? matchingTrace.trace : ""
matchingTraceText(sample, lineNumber) ==
    IF \E k \in 1..Len(sample) : sample[k].originalIndex = lineNumber
    THEN LET k == CHOOSE k \in 1..Len(sample) :
                     /\ sample[k].originalIndex = lineNumber
                     /\ \A m \in 1..(k - 1) : sample[m].originalIndex # lineNumber
         IN  sample[k].trace
    ELSE <<>>

\* selectedTraces.map(item => ({ trace, tags: item.tags || [] }))
mapSelected(items, sample) ==
    [k \in 1..Len(items) |->
        [trace |-> matchingTraceText(sample, items[k].line_number),
         tags  |-> IF items[k].tags = <<>> THEN <<>> ELSE items[k].tags[1]]]

\* A settled reasoning call.  kind is "reject" (the call rejects),
\* "no_function_call", "bad_json" (JSON.parse throws) or "args" (parsed
\* arguments); selected_traces is <<>> when the field is missing, else <<list>>.
Response(kind, selected) == [kind |-> kind, selected_traces |-> selected]

\* what selectRelevantTraces does with a settled call: threw tells whether the
\* function rejects, value is the list it returns
reasoningResultUncaught(resp, sample) ==
    IF resp.kind = "args" /\ resp.selected_traces # <<>>
       /\ Len(resp.selected_traces[1]) > 0
    THEN [threw |-> FALSE, value |-> mapSelected(resp.selected_traces[1], sample)]
    ELSE [threw |-> resp.kind \in {"reject", "bad_json"}, value |-> <<>>]
reasoningResult(resp, sample) ==
    IF resp.kind = "args" /\ resp.selected_traces # <<>>
       /\ Len(resp.selected_traces[1]) > 0
    THEN [threw |-> FALSE, value |-> mapSelected(resp.selected_traces[1], sample)]
    ELSE [threw |-> FALSE, value |-> <<>>]

----------------------------------------------------------------------------
(* Inputs *)

\* lines a corpus is made of: blank ones and traces of different lengths
TraceLines == {<<" ">>, <<"a">>, <<"b", "b">>}

\* corpus texts of at most n lines (fallbackTraces.join('\n'))
Contents(n) == {Join(lines, <<"\n">>) : lines \in SeqUpTo(TraceLines, n)}

\* sampling bounds a request may carry: none, or any integer (the endpoint
\* validates analysisId and query only)
Bounds(n) == {<<>>} \cup {<<b>> : b \in -1..(n + 1)}

\* answers of the analysis model
Answers == SeqUpTo({"a", " "}, MaxAnswerLen)

\* settled reasoning calls the endpoint specification draws from
ReasoningItems(n) ==
    {<<>>} \cup {<<[line_number |-> l, tags |-> t]>> :
                    l \in 1..(n + 1), t \in {<<>>, << <<"Category A">> >>}}
Responses(n) ==
    {Response("reject", <<>>), Response("no_function_call", <<>>),
     Response("bad_json", <<>>), Response("args", <<>>)}
    \cup {Response("args", <<items>>) : items \in ReasoningItems(n)}

----------------------------------------------------------------------------
(* Events of the response stream *)

SentinelResponse == <<"ERROR: No traces found in the uploaded data.">>
AbortMessage == "Request was aborted."
ProviderMessage == "provider error"

HeartbeatEvent == [type |-> "heartbeat"]
ContentEvent(chunk) == [type |-> "content", content |-> chunk]
ErrorEvent(message) == [type |-> "error", error |-> <<"Analysis failed: ", message>>]
CompleteEvent(list) == [type |-> "complete", tracesWithTags |-> list]

\* the two stage markers written after the analysis stage, in order
stageMarkersSwapped == <<[type |-> "reasoning_start"], [type |-> "streaming_complete"]>>
stageMarkers == <<[type |-> "streaming_complete"], [type |-> "reasoning_start"]>>

HasEvent(evs, t) == \E k \in 1..Len(evs) : evs[k].type = t
CountEvents(evs, t) == Cardinality({k \in 1..Len(evs) : evs[k].type = t})

----------------------------------------------------------------------------
(* POST /api/analyze *)

\* the parts of the program a specification leaves untouched
RouteIdle ==
    /\ reqValid = "ok"
    /\ tracesContent = <<>>
    /\ maxTracesForReasoning = <<>>
    /\ pc = "idle"
    /\ httpStatus = 0
    /\ events = <<>>
    /\ clientDisconnected = FALSE
    /\ aborted = FALSE
    /\ selectedTraces = <<>>
    /\ fullResponse = <<>>
    /\ words = <<>>
    /\ i = 0
    /\ chunks = <<>>
    /\ analysisCalls = 0
    /\ reasoningCalls = 0
    /\ reasoningSample = <<>>
    /\ reasoningResponse = <<>>
    /\ tracesWithTags = <<>>
    /\ runs = <<>>
BatchIdle == maxResults = <<>> /\ batchResponse = <<>> /\ results = <<>>
RenderIdle == promptInputs = <<>> /\ finalPrompt = <<>>
PairIdle == requests = <<>>
ClientIdle == jobs = <<>> /\ selectedJobs = {} /\ isRunningAll = FALSE /\ jobRuns = <<>>
StorageIdle ==
    batchJobs = <<>> /\ currentBatchJobId = 1 /\ saveCalls = <<>> /\ microtasks = <<>>

Init ==
    /\ reqValid \in {"ok", "missing", "notfound"}
    /\ tracesContent \in Contents(MaxLines)
    /\ maxTracesForReasoning \in Bounds(MaxLines)
    /\ pc = "start"
    /\ httpStatus = 0
    /\ events = <<>>
    /\ clientDisconnected = FALSE
    /\ aborted = FALSE
    /\ selectedTraces = <<>>
    /\ fullResponse = <<>>
    /\ words = <<>>
    /\ i = 0
    /\ chunks = <<>>
    /\ analysisCalls = 0
    /\ reasoningCalls = 0
    /\ reasoningSample = <<>>
    /\ reasoningResponse = <<>>
    /\ tracesWithTags = <<>>
    /\ runs = <<>>
    /\ maxResults = <<>>
    /\ batchResponse = <<>>
    /\ results = <<>>
    /\ RenderIdle /\ PairIdle /\ ClientIdle /\ StorageIdle

inputs == <<reqValid, tracesContent, maxTracesForReasoning, runs>>
flags == <<clientDisconnected, aborted>>
analysisVars == <<selectedTraces, fullResponse, words, i, analysisCalls, chunks>>
reasoningVars == <<reasoningCalls, reasoningSample, reasoningResponse, tracesWithTags>>
batchVars == <<maxResults, batchResponse, results>>
renderVars == <<promptInputs, finalPrompt>>
clientVars == <<jobs, selectedJobs, isRunningAll, jobRuns>>
storageVars == <<batchJobs, currentBatchJobId, saveCalls, microtasks>>
otherModules == <<renderVars, requests, clientVars, storageVars>>

\* missing analysisId or query: 400; unknown analysis: 404
ValidateRequest ==
    /\ pc = "start"
    /\ IF reqValid = "ok"
       THEN /\ pc' = "validated"
            /\ UNCHANGED httpStatus
       ELSE /\ pc' = "rejected"
            /\ httpStatus' = IF reqValid = "missing" THEN 400 ELSE 404
    /\ UNCHANGED <<inputs, batchVars, otherModules, events, flags, analysisVars, reasoningVars>>

OpenStreamNoHeartbeat ==
    /\ pc = "validated"
    /\ httpStatus' = 200
    /\ pc' = "analyze"
    /\ UNCHANGED <<inputs, batchVars, otherModules, events, flags, analysisVars, reasoningVars>>

\* res.writeHead(200, ...), registration of the close/aborted handlers, heartbeat
OpenStream ==
    /\ pc = "validated"
    /\ httpStatus' = 200
    /\ events' = Append(events, HeartbeatEvent)
    /\ pc' = "analyze"
    /\ UNCHANGED <<inputs, batchVars, otherModules, flags, analysisVars, reasoningVars>>

\* analyzeDatasetGapsStreaming up to the await of the model call
BeginAnalysis ==
    /\ pc = "analyze"
    /\ LET traces == Traces(tracesContent)
       IN  IF Len(traces) = 0
           THEN /\ fullResponse' = SentinelResponse
                /\ selectedTraces' = <<>>
                /\ pc' = "stage_end"
                /\ UNCHANGED analysisCalls
           ELSE /\ \E random \in RandomDraws :
                       selectedTraces' =
                           sampleTraces(traces, boundOrDefault(maxTracesForReasoning), random)
                /\ analysisCalls' = analysisCalls + 1
                /\ pc' = "analysis_call"
                /\ UNCHANGED fullResponse
    /\ UNCHANGED <<inputs, batchVars, otherModules, httpStatus, events, flags, words, i,
                   chunks, reasoningVars>>

\* the analysis call resolves: fullResponse, words; an aborted call rejects instead
AnalysisResolves ==
    /\ pc = "analysis_call"
    /\ ~aborted
    /\ \E answer \in Answers :
           /\ fullResponse' = answer
           /\ words' = Split(answer, " ")
    /\ i' = 0
    /\ pc' = "emit"
    /\ UNCHANGED <<inputs, batchVars, otherModules, httpStatus, events, flags,
                   selectedTraces, analysisCalls, chunks, reasoningVars>>

AnalysisRejectsAndContinues ==
    /\ pc = "analysis_call"
    /\ \E message \in {ProviderMessage} \cup (IF aborted THEN {AbortMessage} ELSE {}) :
           events' = Append(events, ErrorEvent(message))
    /\ pc' = "stage_end"
    /\ UNCHANGED <<inputs, batchVars, otherModules, httpStatus, flags, analysisVars, reasoningVars>>

\* the analysis call rejects: rethrown as "Analysis failed: ...", and the
\* endpoint's catch writes the error event and ends the stream
AnalysisRejects ==
    /\ pc = "analysis_call"
    /\ \E message \in {ProviderMessage} \cup (IF aborted THEN {AbortMessage} ELSE {}) :
           events' = Append(events, ErrorEvent(message))
    /\ pc' = "done"
    /\ UNCHANGED <<inputs, batchVars, otherModules, httpStatus, flags, analysisVars, reasoningVars>>

\* the sink passed by the endpoint: the events after onChunk(chunk)
sinkWrites(evs, chunk) ==
    IF clientDisconnected THEN evs ELSE Append(evs, ContentEvent(chunk))

\* one iteration of the fragment loop up to its await, or the loop's exit
\* i === 0 ? word : ' ' + word
fragmentUnspaced(ws, k) == ws[k + 1]
fragment(ws, k) == IF k = 0 THEN ws[k + 1] ELSE <<" ">> \o ws[k + 1]

EmitFragmentIgnoringAbort ==
    /\ pc = "emit"
    /\ IF i < Len(words)
       THEN /\ chunks' = Append(chunks, fragment(words, i))
            /\ events' = sinkWrites(events, fragment(words, i))
            /\ pc' = "delay"
       ELSE /\ pc' = "stage_end"
            /\ UNCHANGED <<events, chunks>>
    /\ UNCHANGED <<inputs, batchVars, otherModules, httpStatus, flags, selectedTraces,
                   fullResponse, words, i, analysisCalls, reasoningVars>>

EmitFragment ==
    /\ pc = "emit"
    /\ IF i < Len(words) /\ ~aborted
       THEN /\ chunks' = Append(chunks, fragment(words, i))
            /\ events' = sinkWrites(events, fragment(words, i))
            /\ pc' = "delay"
       ELSE /\ pc' = "stage_end"
            /\ UNCHANGED <<events, chunks>>
    /\ UNCHANGED <<inputs, batchVars, otherModules, httpStatus, flags, selectedTraces,
                   fullResponse, words, i, analysisCalls, reasoningVars>>

\* the 20 ms timer of the fragment loop fires
FragmentDelay ==
    /\ pc = "delay"
    /\ i' = i + 1
    /\ pc' = "emit"
    /\ UNCHANGED <<inputs, batchVars, otherModules, httpStatus, events, flags,
                   selectedTraces, fullResponse, words, analysisCalls, chunks,
                   reasoningVars>>

\* after the analysis stage returned: the stage markers, then, unless the flag
\* is set, selectRelevantTraces up to the await of its model call (it returns []
\* at once on an aborted signal); without a pending call the endpoint writes the
\* complete event and ends the stream
StageEnd ==
    /\ pc = "stage_end"
    /\ LET marked == events \o stageMarkers
       IN  IF ~clientDisconnected
           THEN /\ \E random \in RandomDraws :
                       reasoningSample' =
                           tracesForReasoning(tracesContent, selectedTraces, random)
                /\ IF abortedBeforeCall(aborted)
                   THEN /\ events' = Append(marked, CompleteEvent(<<>>))
                        /\ pc' = "done"
                        /\ UNCHANGED reasoningCalls
                   ELSE /\ reasoningCalls' = reasoningCalls + 1
                        /\ events' = marked
                        /\ pc' = "reasoning_call"
           ELSE /\ events' = Append(marked, CompleteEvent(tracesWithTags))
                /\ pc' = "done"
                /\ UNCHANGED <<reasoningCalls, reasoningSample>>
    /\ UNCHANGED <<inputs, batchVars, otherModules, httpStatus, flags, analysisVars,
                   reasoningResponse,
                   tracesWithTags>>

\* the reasoning call settles; selectRelevantTraces returns, the endpoint writes
\* the complete event and ends the stream (or its catch writes the error event)
ReasoningSettles ==
    /\ pc = "reasoning_call"
    /\ \E resp \in Responses(MaxLines) :
           /\ aborted => resp.kind = "reject"
           /\ reasoningResponse' = <<resp>>
           /\ LET result == reasoningResult(resp, reasoningSample)
              IN  IF result.threw
                  THEN /\ events' = Append(events, ErrorEvent(ProviderMessage))
                       /\ UNCHANGED tracesWithTags
                  ELSE /\ tracesWithTags' = result.value
                       /\ events' = Append(events, CompleteEvent(result.value))
    /\ pc' = "done"
    /\ UNCHANGED <<inputs, batchVars, otherModules, httpStatus, flags, analysisVars, reasoningCalls,
                   reasoningSample>>

DisconnectWritesAbortEvent ==
    /\ pc \in {"analysis_call", "delay", "reasoning_call", "done"}
    /\ clientDisconnected' = TRUE
    /\ aborted' = TRUE
    /\ events' = Append(events, ErrorEvent(AbortMessage))
    /\ UNCHANGED <<inputs, batchVars, otherModules, pc, httpStatus, analysisVars, reasoningVars>>

\* req 'close' / 'aborted': both handlers set the flag and abort the controller.
\* The event loop delivers it only while the handler is suspended or has ended.
Disconnect ==
    /\ pc \in {"analysis_call", "delay", "reasoning_call", "done"}
    /\ clientDisconnected' = TRUE
    /\ aborted' = TRUE
    /\ UNCHANGED <<inputs, batchVars, otherModules, pc, httpStatus, events, analysisVars,
                   reasoningVars>>

Next ==
    \/ ValidateRequest
    \/ OpenStream
    \/ BeginAnalysis
    \/ AnalysisResolves
    \/ AnalysisRejects
    \/ EmitFragment
    \/ FragmentDelay
    \/ StageEnd
    \/ ReasoningSettles
    \/ Disconnect

Spec == Init /\ [][Next]_vars

\* the handler's continuations run when they are due, the timer of the fragment
\* loop fires, and every issued model call settles
Fairness ==
    /\ WF_vars(ValidateRequest)
    /\ WF_vars(OpenStream)
    /\ WF_vars(BeginAnalysis)
    /\ WF_vars(AnalysisResolves \/ AnalysisRejects)
    /\ WF_vars(EmitFragment)
    /\ WF_vars(FragmentDelay)
    /\ WF_vars(StageEnd)
    /\ WF_vars(ReasoningSettles)

\* valid requests on an empty corpus and on corpora of one and two traces
InitLive ==
    /\ Init
    /\ reqValid = "ok"
    /\ tracesContent \in {<<>>, <<"a">>, <<"a", "\n", "b", "b">>}
    /\ maxTracesForReasoning = <<>>

SpecLive == InitLive /\ [][Next]_vars /\ Fairness

----------------------------------------------------------------------------
(* The sampling step run repeatedly on one corpus *)

\* maxTracesForAnalysis: number = 250
paramOrDefault(opt) == IF opt = <<>> THEN 250 ELSE opt[1]

\* selectedTraces of one call of analyzeDatasetGapsStreaming
selectedTracesOf(content, opt, random) ==
    IF Len(Traces(content)) = 0
    THEN <<>>
    ELSE sampleTraces(Traces(content), paramOrDefault(opt), random)

InitSampler ==
    /\ reqValid = "ok"
    /\ tracesContent \in Contents(MaxSamplerLines)
    /\ maxTracesForReasoning \in Bounds(MaxSamplerLines)
    /\ pc = "sampler"
    /\ httpStatus = 0
    /\ events = <<>>
    /\ clientDisconnected = FALSE
    /\ aborted = FALSE
    /\ selectedTraces = <<>>
    /\ fullResponse = <<>>
    /\ words = <<>>
    /\ i = 0
    /\ chunks = <<>>
    /\ analysisCalls = 0
    /\ reasoningCalls = 0
    /\ reasoningSample = <<>>
    /\ reasoningResponse = <<>>
    /\ tracesWithTags = <<>>
    /\ runs = <<>>
    /\ maxResults = <<>>
    /\ batchResponse = <<>>
    /\ results = <<>>
    /\ RenderIdle /\ PairIdle /\ ClientIdle /\ StorageIdle

SampleRun ==
    /\ pc = "sampler"
    /\ Len(runs) < NumRuns
    /\ \E random \in RandomDraws :
           runs' = Append(runs, selectedTracesOf(tracesContent, maxTracesForReasoning, random))
    /\ UNCHANGED <<reqValid, tracesContent, maxTracesForReasoning, pc, httpStatus, events,
                   flags, analysisVars, reasoningVars, batchVars, otherModules>>

NextSampler == SampleRun

SpecSampler == InitSampler /\ [][NextSampler]_vars

----------------------------------------------------------------------------
(* selectRelevantTraces called on its own *)

\* the cap of the fallback sample and the page size of the selection schema
FallbackLimit == 250
PageSize == 20

\* a corpus of n traces, "a" and "bb" in turn
LargeLines(n) == [k \in 1..n |-> IF k % 2 = 1 THEN <<"a">> ELSE <<"b", "b">>]
LargeContents ==
    {Join(LargeLines(n), <<"\n">>) : n \in (FallbackLimit - 1)..(FallbackLimit + MaxOver)}

\* preSelectedTraces: absent (or empty), or a sample the analysis stage returns
PreSelected(content) ==
    {<<>>} \cup {sampleTraces(Traces(content), n, 0) :
                    n \in 1..Min(Len(Traces(content)), MaxReasoningLines)}

\* selected_traces lists of a model response
SelectItems ==
    {[line_number |-> l, tags |-> t] :
        l \in 1..MaxReasoningLines \cup {99, FallbackLimit + 1},
        t \in {<<>>, << <<"Category A">> >>}}
LongLists ==
    {[k \in 1..n |-> [line_number |-> 1, tags |-> << <<"Category A">> >>]] :
        n \in {PageSize, PageSize + 1}}
SelectResponses ==
    {Response("reject", <<>>), Response("no_function_call", <<>>),
     Response("bad_json", <<>>), Response("args", <<>>)}
    \cup {Response("args", <<items>>) : items \in SeqUpTo(SelectItems, MaxItems) \cup LongLists}

InitReasoning ==
    /\ reqValid = "ok"
    /\ tracesContent \in Contents(MaxReasoningLines) \cup LargeContents
    /\ maxTracesForReasoning = <<>>
    /\ pc = "select"
    /\ httpStatus = 0
    /\ events = <<>>
    /\ clientDisconnected = FALSE
    /\ aborted \in BOOLEAN
    /\ selectedTraces \in PreSelected(tracesContent)
    /\ fullResponse = <<>>
    /\ words = <<>>
    /\ i = 0
    /\ chunks = <<>>
    /\ analysisCalls = 0
    /\ reasoningCalls = 0
    /\ reasoningSample = <<>>
    /\ reasoningResponse = <<>>
    /\ tracesWithTags = <<>>
    /\ runs = <<>>
    /\ maxResults = <<>>
    /\ batchResponse = <<>>
    /\ results = <<>>
    /\ RenderIdle /\ PairIdle /\ ClientIdle /\ StorageIdle

\* selectRelevantTraces up to the await of its model call, or its return on an
\* aborted signal
SelectBegin ==
    /\ pc = "select"
    /\ \E random \in RandomDraws :
           reasoningSample' = tracesForReasoning(tracesContent, selectedTraces, random)
    /\ IF abortedBeforeCall(aborted)
       THEN /\ tracesWithTags' = <<>>
            /\ pc' = "returned"
            /\ UNCHANGED reasoningCalls
       ELSE /\ reasoningCalls' = reasoningCalls + 1
            /\ pc' = "select_call"
            /\ UNCHANGED tracesWithTags
    /\ UNCHANGED <<inputs, batchVars, otherModules, httpStatus, events, flags, analysisVars,
                   reasoningResponse>>

\* the abort signal fires while the call is in flight
SelectAbort ==
    /\ pc = "select_call"
    /\ aborted' = TRUE
    /\ UNCHANGED <<inputs, batchVars, otherModules, pc, httpStatus, events, clientDisconnected,
                   analysisVars,
                   reasoningVars>>

\* the model call settles and selectRelevantTraces returns (or throws)
SelectSettles ==
    /\ pc = "select_call"
    /\ \E resp \in SelectResponses :
           /\ aborted => resp.kind = "reject"
           /\ reasoningResponse' = <<resp>>
           /\ LET result == reasoningResult(resp, reasoningSample)
              IN  /\ tracesWithTags' = result.value
                  /\ pc' = IF result.threw THEN "threw" ELSE "returned"
    /\ UNCHANGED <<inputs, batchVars, otherModules, httpStatus, events, flags, analysisVars,
                   reasoningCalls,
                   reasoningSample>>

NextReasoning ==
    \/ SelectBegin
    \/ SelectAbort
    \/ SelectSettles

SpecReasoning == InitReasoning /\ [][NextReasoning]_vars

----------------------------------------------------------------------------
(* POST /api/analyze on corpora around the default sample size *)

\* "samples a random subset of 300 traces at each new interaction"
ReadmeSampleSize == 300

\* a valid request without a sampling bound on a corpus of about 250 traces
InitLarge ==
    /\ reqValid = "ok"
    /\ tracesContent \in LargeContents
    /\ maxTracesForReasoning = <<>>
    /\ pc = "start"
    /\ httpStatus = 0
    /\ events = <<>>
    /\ clientDisconnected = FALSE
    /\ aborted = FALSE
    /\ selectedTraces = <<>>
    /\ fullResponse = <<>>
    /\ words = <<>>
    /\ i = 0
    /\ chunks = <<>>
    /\ analysisCalls = 0
    /\ reasoningCalls = 0
    /\ reasoningSample = <<>>
    /\ reasoningResponse = <<>>
    /\ tracesWithTags = <<>>
    /\ runs = <<>>
    /\ maxResults = <<>>
    /\ batchResponse = <<>>
    /\ results = <<>>
    /\ RenderIdle /\ PairIdle /\ ClientIdle /\ StorageIdle

SpecLarge == InitLarge /\ [][Next]_vars

----------------------------------------------------------------------------
(* Both entries of the reasoning stage: through the endpoint and on its own *)

InitStages == Init \/ InitReasoning

NextStages ==
    \/ Next
    \/ NextReasoning

SpecStages == InitStages /\ [][NextStages]_vars

----------------------------------------------------------------------------
(* POST /api/batch-job and runBatchJobAnalysis *)

MaxBatchLines == 2
MaxBatchItems == 2

\* scores are held in tenths: 10 stands for 1.0
ScoreScale == 10

\* a number of the response in tenths, and NaN
Number(tenths) == [nan |-> FALSE, tenths |-> tenths]
NaN == [nan |-> TRUE, tenths |-> 0]

\* values the model may put in relevance_score: none, a number in or out of
\* range, or a string that is no number
Scores ==
    {[kind |-> "missing", tenths |-> 0], [kind |-> "string", tenths |-> 0]}
    \cup {[kind |-> "number", tenths |-> t] : t \in {-5, 0, 3, ScoreScale + 5}}

BatchItem(l, sc, r) == [line_number |-> l, relevance_score |-> sc, reasoning |-> r]

\* a JSON number used as a line number: whole, or whole + 0.5
Line(whole) == [whole |-> whole, half |-> FALSE]
LineAndHalf(whole) == [whole |-> whole, half |-> TRUE]

\* items of matching_traces; line_number and reasoning are <<>> when missing:
\* every line number in and next to the range of an n-trace corpus with two
\* scores, a line number that is no integer, every score on line 1, and an
\* item without reasoning
BatchItems(n) ==
    {BatchItem(l, [kind |-> "number", tenths |-> t], <<"matches">>) :
        l \in {<<>>} \cup {<<Line(k)>> : k \in 0..(n + 1)}, t \in {3, ScoreScale + 5}}
    \cup {BatchItem(<<LineAndHalf(1)>>, [kind |-> "number", tenths |-> 3], <<"matches">>)}
    \cup {BatchItem(<<Line(1)>>, sc, <<"matches">>) : sc \in Scores}
    \cup {BatchItem(<<Line(1)>>, [kind |-> "number", tenths |-> 3], <<>>)}

BatchResponse(kind, matching) == [kind |-> kind, matching_traces |-> matching]

\* settled batch calls: rejected, without function call, with arguments that
\* do not parse, without an array of matching_traces, or with such an array
BatchResponses(n) ==
    {BatchResponse("reject", <<>>), BatchResponse("no_function_call", <<>>),
     BatchResponse("bad_json", <<>>), BatchResponse("args", <<>>)}
    \cup {BatchResponse("args", <<matching>>) : matching \in SeqUpTo(BatchItems(n), MaxBatchItems)}

\* item.line_number && item.line_number >= 1 && item.line_number <= traces.length
lineNumberInRange(item, traces) ==
    /\ item.line_number # <<>>
    /\ item.line_number[1] # Line(0)
    /\ item.line_number[1].whole >= 1
    /\ IF item.line_number[1].half
       THEN item.line_number[1].whole < Len(traces)
       ELSE item.line_number[1].whole <= Len(traces)

RECURSIVE filterItems(_, _)
filterItems(matching, traces) ==
    IF matching = <<>> THEN <<>>
    ELSE (IF lineNumberInRange(Head(matching), traces) THEN <<Head(matching)>> ELSE <<>>)
         \o filterItems(Tail(matching), traces)

\* Math.min(1, Math.max(0, item.relevance_score || 0))
clamp(score) ==
    IF score.kind = "missing" THEN Number(0)
    ELSE IF score.kind = "number" THEN Number(Min(ScoreScale, Max(0, score.tenths)))
    ELSE NaN

\* array[index] for a number index: <<>> when undefined
elementAt(array, index) ==
    IF index.half \/ index.whole \notin 0..(Len(array) - 1)
    THEN <<>>
    ELSE <<array[index.whole + 1]>>

\* the result built from one item that passed the filter; trace is <<>> when
\* traces[item.line_number - 1] is undefined
batchResultOf(item, traces) ==
    [trace |-> elementAt(traces, [item.line_number[1] EXCEPT !.whole = @ - 1]),
     originalIndex |-> [item.line_number[1] EXCEPT !.whole = @ - 1],
     relevanceScore |-> clamp(item.relevance_score),
     reasoning |-> IF item.reasoning = <<>> THEN "No reasoning provided"
                   ELSE item.reasoning[1]]

\* one insertion of the stable sort: r goes behind the entries that do not
\* rank below it
insertByScore(sorted, r) ==
    LET ahead == Cardinality({k \in 1..Len(sorted) :
                     sorted[k].relevanceScore.tenths >= r.relevanceScore.tenths})
    IN  SubSeq(sorted, 1, ahead) \o <<r>> \o SubSeq(sorted, ahead + 1, Len(sorted))

RECURSIVE sortByScore(_)
sortByScore(rs) ==
    IF rs = <<>> THEN <<>>
    ELSE insertByScore(sortByScore(SubSeq(rs, 1, Len(rs) - 1)), rs[Len(rs)])

\* the orders .sort((a, b) => b.relevanceScore - a.relevanceScore) may leave:
\* the stable descending order, or, when a score is NaN and the comparator is
\* no longer consistent, an order the engine chooses
sortOutcomes(rs) ==
    IF \E k \in 1..Len(rs) : rs[k].relevanceScore.nan
    THEN {[k \in 1..Len(rs) |-> rs[p[k]]] : p \in Permutations(1..Len(rs))}
    ELSE {sortByScore(rs)}

\* what runBatchJobAnalysis does with a settled call: threw tells whether it
\* rejects, values are the lists it may return
batchOutcomes(resp, traces) ==
    IF resp.kind = "reject" THEN [threw |-> TRUE, values |-> {<<>>}]
    ELSE IF resp.kind \in {"no_function_call", "bad_json"} \/ resp.matching_traces = <<>>
    THEN [threw |-> FALSE, values |-> {<<>>}]
    ELSE LET kept == filterItems(resp.matching_traces[1], traces)
         IN  [threw |-> FALSE,
              values |-> sortOutcomes([k \in 1..Len(kept) |-> batchResultOf(kept[k], traces)])]

\* maxResults = 30 of the request body
maxResultsOrDefault(opt) == IF opt = <<>> THEN 30 ELSE opt[1]

InitBatch ==
    /\ reqValid = "ok"
    /\ tracesContent \in Contents(MaxBatchLines)
    /\ maxTracesForReasoning = <<>>
    /\ pc = "batch"
    /\ httpStatus = 0
    /\ events = <<>>
    /\ clientDisconnected = FALSE
    /\ aborted = FALSE
    /\ selectedTraces = <<>>
    /\ fullResponse = <<>>
    /\ words = <<>>
    /\ i = 0
    /\ chunks = <<>>
    /\ analysisCalls = 0
    /\ reasoningCalls = 0
    /\ reasoningSample = <<>>
    /\ reasoningResponse = <<>>
    /\ tracesWithTags = <<>>
    /\ runs = <<>>
    /\ maxResults \in {<<>>} \cup {<<n>> : n \in 1..MaxBatchItems}
    /\ batchResponse = <<>>
    /\ results = <<>>
    /\ RenderIdle /\ PairIdle /\ ClientIdle /\ StorageIdle

\* the endpoint up to the await of the model call; without traces it answers
\* { results: [] } at once
BatchBegin ==
    /\ pc = "batch"
    /\ IF Len(Traces(tracesContent)) = 0
       THEN /\ httpStatus' = 200
            /\ pc' = "batch_done"
       ELSE /\ pc' = "batch_call"
            /\ UNCHANGED httpStatus
    /\ UNCHANGED <<inputs, batchVars, otherModules, events, flags, analysisVars, reasoningVars>>

\* the model call settles; runBatchJobAnalysis returns or rethrows, and the
\* endpoint answers with the results or with status 500
BatchSettles ==
    /\ pc = "batch_call"
    /\ \E resp \in BatchResponses(MaxBatchLines) :
           /\ batchResponse' = <<resp>>
           /\ LET outcome == batchOutcomes(resp, Traces(tracesContent))
              IN  /\ results' \in outcome.values
                  /\ httpStatus' = IF outcome.threw THEN 500 ELSE 200
    /\ pc' = "batch_done"
    /\ UNCHANGED <<inputs, maxResults, events, flags, analysisVars, reasoningVars,
                   otherModules>>

NextBatch ==
    \/ BatchBegin
    \/ BatchSettles

SpecBatch == InitBatch /\ [][NextBatch]_vars

----------------------------------------------------------------------------
(* Prompt rendering *)

\* A template or a binding value is held as a sequence of pieces: a placeholder
\* is one piece, and so is a replacement pattern of String.prototype.replace.
MaxTemplateLen == 3

\* the expansion of a replacement string: $$ is "$", $& the matched text,
\* $` the text before the match and $' the text after it
RECURSIVE expandReplacement(_, _, _, _)
expandReplacement(replacement, matched, before, after) ==
    IF replacement = <<>> THEN <<>>
    ELSE LET piece == Head(replacement)
             expanded == IF piece = "$$" THEN <<"$">>
                         ELSE IF piece = "$&" THEN <<matched>>
                         ELSE IF piece = "$`" THEN before
                         ELSE IF piece = "$'" THEN after
                         ELSE <<piece>>
         IN  expanded \o expandReplacement(Tail(replacement), matched, before, after)

\* str.replace(pattern, replacement) for a string pattern: the first occurrence
\* only, with the replacement patterns expanded
replace(str, pattern, replacement) ==
    LET found == {k \in 1..Len(str) : str[k] = pattern}
    IN  IF found = {} THEN str
        ELSE LET k == CHOOSE m \in found : \A n \in found : m <= n
                 before == SubSeq(str, 1, k - 1)
                 after == SubSeq(str, k + 1, Len(str))
             IN  before \o expandReplacement(replacement, pattern, before, after) \o after

\* the prompt of either stage: the analysis stage binds three placeholders, the
\* reasoning stage two
renderPrompt(in) ==
    LET withConversation == replace(in.template, "{conversation}", in.conversation)
        withTraces == replace(withConversation, "{traces}", in.traces)
    IN  IF in.stage = "analysis"
        THEN replace(withTraces, "{datasets}", in.datasets)
        ELSE withTraces

\* templates: the shape of DEFAULT_PROMPTS.analysis, that of
\* DEFAULT_PROMPTS.reasoning, and custom prompts
AnalysisTemplate == <<"x", "{traces}", "x", "{datasets}", "x", "{conversation}", "x">>
ReasoningTemplate == <<"x", "{conversation}", "x", "{traces}", "x">>
TemplatePieces == {"{conversation}", "{traces}", "{datasets}", "{other}", "x"}
Templates ==
    {AnalysisTemplate, ReasoningTemplate} \cup SeqUpTo(TemplatePieces, MaxTemplateLen)

\* binding values: the conversation ends with the user's query, which may hold
\* any text
Conversations == {<<"u">>, <<"u", "{traces}">>, <<"u", "$&">>, <<"u", "$$">>}
TraceSections == {<<"t">>, <<"t", "{datasets}">>}
DatasetSections == {<<"d">>}

InitRender ==
    /\ RouteIdle /\ BatchIdle /\ PairIdle /\ ClientIdle /\ StorageIdle
    /\ promptInputs = <<>>
    /\ finalPrompt = <<>>

\* the stage computes its template and its bindings
PrepareRender ==
    /\ promptInputs = <<>>
    /\ \E stage \in {"analysis", "reasoning"}, template \in Templates,
          conversation \in Conversations, traces \in TraceSections,
          datasets \in DatasetSections :
           promptInputs' = <<[stage |-> stage, template |-> template,
                              conversation |-> conversation, traces |-> traces,
                              datasets |-> datasets]>>
    /\ UNCHANGED <<inputs, pc, httpStatus, events, flags, analysisVars, reasoningVars,
                   batchVars, finalPrompt, requests, clientVars, storageVars>>

\* the chain of replace calls
Render ==
    /\ promptInputs # <<>>
    /\ finalPrompt = <<>>
    /\ finalPrompt' = <<renderPrompt(promptInputs[1])>>
    /\ UNCHANGED <<inputs, pc, httpStatus, events, flags, analysisVars, reasoningVars,
                   batchVars, promptInputs, requests, clientVars, storageVars>>

NextRender ==
    \/ PrepareRender
    \/ Render

SpecRender == InitRender /\ [][NextRender]_vars

----------------------------------------------------------------------------
(* Concurrent /api/analyze requests *)

\* Every invocation of the handler has its own clientDisconnected, its own
\* abortController and its own response; a request is held as a record of these.
NumRequests == 2

PairAnswers == {<<"a">>, <<"a", " ", "a">>}

\* a valid request on a corpus with traces, after writeHead
newRequest ==
    [pc |-> "validated", events |-> <<>>, clientDisconnected |-> FALSE, aborted |-> FALSE,
     words |-> <<>>, i |-> 0, analysisCalls |-> 0, reasoningCalls |-> 0]

\* the states the handler of one request may move to from r
handlerSteps(r) ==
    IF r.pc = "validated"
    THEN {[r EXCEPT !.events = Append(@, HeartbeatEvent), !.pc = "analysis_call",
                    !.analysisCalls = @ + 1]}
    ELSE IF r.pc = "analysis_call"
    THEN {[r EXCEPT !.events = Append(@, ErrorEvent(message)), !.pc = "done"] :
              message \in {ProviderMessage} \cup (IF r.aborted THEN {AbortMessage} ELSE {})}
         \cup (IF r.aborted THEN {}
               ELSE {[r EXCEPT !.words = Split(answer, " "), !.pc = "emit"] :
                        answer \in PairAnswers})
    ELSE IF r.pc = "emit"
    THEN IF r.i < Len(r.words) /\ ~r.aborted
         THEN {[r EXCEPT !.events = IF r.clientDisconnected THEN @
                                    ELSE Append(@, ContentEvent(fragment(r.words, r.i))),
                         !.pc = "delay"]}
         ELSE IF ~r.clientDisconnected /\ ~abortedBeforeCall(r.aborted)
         THEN {[r EXCEPT !.events = @ \o stageMarkers, !.pc = "reasoning_call",
                         !.reasoningCalls = @ + 1]}
         ELSE {[r EXCEPT !.events = Append(@ \o stageMarkers, CompleteEvent(<<>>)),
                         !.pc = "done"]}
    ELSE IF r.pc = "delay"
    THEN {[r EXCEPT !.i = @ + 1, !.pc = "emit"]}
    ELSE IF r.pc = "reasoning_call"
    THEN {[r EXCEPT !.events = Append(@, CompleteEvent(<<>>)), !.pc = "done"]}
    ELSE {}

\* req.on('close') / req.on('aborted') of the request itself
disconnected(r) == [r EXCEPT !.clientDisconnected = TRUE, !.aborted = TRUE]
canDisconnect(r) == r.pc \in {"analysis_call", "delay", "reasoning_call", "done"}

\* every state a request reaches when it is the only one
RECURSIVE reachableFrom(_, _)
reachableFrom(seen, frontier) ==
    IF frontier = {} THEN seen
    ELSE LET next == UNION {handlerSteps(r) \cup (IF canDisconnect(r) THEN {disconnected(r)}
                                                  ELSE {}) : r \in frontier}
         IN  reachableFrom(seen \cup frontier, next \ (seen \cup frontier))

aloneStates == reachableFrom({}, {newRequest})

InitPair ==
    /\ RouteIdle /\ BatchIdle /\ RenderIdle /\ ClientIdle /\ StorageIdle
    /\ requests = [k \in 1..NumRequests |-> newRequest]

pairFrame ==
    <<inputs, pc, httpStatus, events, flags, analysisVars, reasoningVars, batchVars,
      renderVars, clientVars, storageVars>>

\* the handler of one request runs up to its next await
PairStep ==
    /\ requests # <<>>
    /\ \E k \in DOMAIN requests : \E r \in handlerSteps(requests[k]) :
           requests' = [requests EXCEPT ![k] = r]
    /\ UNCHANGED pairFrame

PairDisconnectShared ==
    /\ requests # <<>>
    /\ \E k \in DOMAIN requests :
           /\ canDisconnect(requests[k])
           /\ requests' = [n \in DOMAIN requests |-> disconnected(requests[n])]
    /\ UNCHANGED pairFrame

\* the client of one request goes away
PairDisconnect ==
    /\ requests # <<>>
    /\ \E k \in DOMAIN requests :
           /\ canDisconnect(requests[k])
           /\ requests' = [requests EXCEPT ![k] = disconnected(@)]
    /\ UNCHANGED pairFrame

NextPair ==
    \/ PairStep
    \/ PairDisconnect

SpecPair == InitPair /\ [][NextPair]_vars

----------------------------------------------------------------------------
(* The client's batch jobs: runAllJobs and runSingleJob *)

NumJobs == 3
JobIds == 1..NumJobs

\* a job as the client holds it; results and error are <<>> when undefined
Job(status, results_, error) == [status |-> status, results |-> results_, error |-> error]

\* jobs before a run: never run, completed by an earlier run, or failed by one
StoredJobs ==
    {Job("pending", <<>>, <<>>), Job("completed", <<"old">>, <<>>),
     Job("error", <<>>, <<"old error">>)}

\* what the request of a job may come to: an answer with results, an answer
\* whose status is not ok, or a rejected fetch
FetchOutcomes == {"ok", "not_ok", "rejected"}

jobsFrame ==
    <<inputs, pc, httpStatus, events, flags, analysisVars, reasoningVars, batchVars,
      renderVars, requests, storageVars>>

InitJobs ==
    /\ RouteIdle /\ BatchIdle /\ RenderIdle /\ PairIdle /\ StorageIdle
    /\ jobs \in [JobIds -> StoredJobs]
    /\ selectedJobs \in SUBSET JobIds
    /\ isRunningAll = FALSE
    /\ jobRuns = [all |-> "idle", single |-> [j \in JobIds |-> "none"]]

\* runAllJobs up to its await: every selected job is marked running and its
\* request is sent
RunAllJobs ==
    /\ jobRuns # <<>>
    /\ jobRuns.all = "idle"
    /\ IF selectedJobs = {}
       THEN /\ jobRuns' = [jobRuns EXCEPT !.all = "done"]
            /\ UNCHANGED <<jobs, isRunningAll>>
       ELSE /\ isRunningAll' = TRUE
            /\ jobs' = [j \in JobIds |->
                           IF j \in selectedJobs
                           THEN [jobs[j] EXCEPT !.status = "running", !.error = <<>>]
                           ELSE jobs[j]]
            /\ jobRuns' = [all |-> "awaiting",
                           single |-> [j \in JobIds |->
                                          IF j \in selectedJobs THEN "fetch" ELSE "none"]]
    /\ UNCHANGED <<jobsFrame, selectedJobs>>

settledJob(job, outcome) ==
    IF outcome = "ok"
    THEN [job EXCEPT !.status = "completed", !.results = <<"new">>]
    ELSE [job EXCEPT !.status = "error",
                     !.error = IF outcome = "not_ok" THEN <<"Failed to run batch job">>
                               ELSE <<"Failed to fetch">>]

FetchSettlesFailingAll ==
    /\ jobRuns # <<>>
    /\ \E j \in JobIds, outcome \in FetchOutcomes :
           /\ jobRuns.single[j] = "fetch"
           /\ jobs' = IF outcome = "ok"
                      THEN [jobs EXCEPT ![j] = settledJob(@, outcome)]
                      ELSE [n \in JobIds |-> settledJob(jobs[n], outcome)]
           /\ jobRuns' = [jobRuns EXCEPT !.single[j] = "settled"]
    /\ UNCHANGED <<jobsFrame, selectedJobs, isRunningAll>>

\* the request of one job settles: runSingleJob records the results or the
\* error on that job
FetchSettles ==
    /\ jobRuns # <<>>
    /\ \E j \in JobIds, outcome \in FetchOutcomes :
           /\ jobRuns.single[j] = "fetch"
           /\ jobs' = [jobs EXCEPT ![j] = settledJob(@, outcome)]
           /\ jobRuns' = [jobRuns EXCEPT !.single[j] = "settled"]
    /\ UNCHANGED <<jobsFrame, selectedJobs, isRunningAll>>

\* Promise.all resolves once every runSingleJob has returned
AllSettled ==
    /\ jobRuns # <<>>
    /\ jobRuns.all = "awaiting"
    /\ \A j \in JobIds : jobRuns.single[j] # "fetch"
    /\ isRunningAll' = FALSE
    /\ jobRuns' = [jobRuns EXCEPT !.all = "done"]
    /\ UNCHANGED <<jobsFrame, jobs, selectedJobs>>

NextJobs ==
    \/ RunAllJobs
    \/ FetchSettles
    \/ AllSettled

\* every request settles, and the continuation of runAllJobs runs
SpecJobs ==
    InitJobs /\ [][NextJobs]_vars /\ WF_vars(RunAllJobs) /\ WF_vars(FetchSettles)
        /\ WF_vars(AllSettled)

----------------------------------------------------------------------------
(* MemStorage: saveBatchJobs and createBatchJob *)

NumSaves == 2
MaxSaveJobs == 2
\* batchJobs is held as the Map's entries in insertion order; a job list is
\* given by the names of its jobs
AnalysisIds == {1, 2}

JobLists == SeqUpTo({"p", "q"}, MaxSaveJobs)

storageFrame ==
    <<inputs, pc, httpStatus, events, flags, analysisVars, reasoningVars, batchVars,
      renderVars, requests, clientVars>>

\* a call of saveBatchJobs: its arguments, the index k of the job whose
\* creation it awaits, the job it awaits (pending) and its newJobs
idleCall ==
    [pc |-> "idle", analysisId |-> 0, jobs |-> <<>>, k |-> 0, pending |-> <<>>,
     newJobs |-> <<>>]

InitStorage ==
    /\ RouteIdle /\ BatchIdle /\ RenderIdle /\ PairIdle /\ ClientIdle
    /\ batchJobs = <<>>
    /\ currentBatchJobId = 1
    /\ saveCalls = [c \in 1..NumSaves |-> idleCall]
    /\ microtasks = <<>>

\* Array.from(this.batchJobs.values()).filter(job => job.analysisId === analysisId)
getBatchJobsByAnalysis(entries, analysisId) ==
    SelectSeq(entries, LAMBDA job : job.analysisId = analysisId)

\* the entries after existingJobs.forEach(job => this.batchJobs.delete(job.id))
deleteExisting(entries, analysisId) ==
    SelectSeq(entries, LAMBDA job : job.analysisId # analysisId)

\* the job createBatchJob builds
newJob(id, analysisId, name) == [id |-> id, analysisId |-> analysisId, name |-> name]

\* saveBatchJobs from its call to its first await: the existing jobs of the
\* analysis are deleted and the first job is created
SaveBegin ==
    /\ saveCalls # <<>>
    /\ \E c \in DOMAIN saveCalls, analysisId \in AnalysisIds, jobList \in JobLists :
           /\ saveCalls[c].pc = "idle"
           /\ LET kept == deleteExisting(batchJobs, analysisId)
                  job == newJob(currentBatchJobId, analysisId, jobList[1])
              IN  IF jobList = <<>>
                  THEN /\ batchJobs' = kept
                       /\ saveCalls' = [saveCalls EXCEPT ![c] =
                              [idleCall EXCEPT !.pc = "returned",
                                               !.analysisId = analysisId]]
                       /\ UNCHANGED <<currentBatchJobId, microtasks>>
                  ELSE /\ batchJobs' = Append(kept, job)
                       /\ currentBatchJobId' = currentBatchJobId + 1
                       /\ saveCalls' = [saveCalls EXCEPT ![c] =
                              [pc |-> "awaiting", analysisId |-> analysisId,
                               jobs |-> jobList, k |-> 1, pending |-> <<job>>,
                               newJobs |-> <<>>]]
                       /\ microtasks' = Append(microtasks, c)
    /\ UNCHANGED storageFrame

\* the suspended call that is due resumes: it pushes the job it awaited, then
\* creates the next job and suspends again, or returns
SaveResume ==
    /\ microtasks # <<>>
    /\ LET c == Head(microtasks)
           call == saveCalls[c]
           pushed == Append(call.newJobs, call.pending[1])
           job == newJob(currentBatchJobId, call.analysisId, call.jobs[call.k + 1])
       IN  IF call.k < Len(call.jobs)
           THEN /\ batchJobs' = Append(batchJobs, job)
                /\ currentBatchJobId' = currentBatchJobId + 1
                /\ saveCalls' = [saveCalls EXCEPT ![c] =
                       [call EXCEPT !.k = @ + 1, !.pending = <<job>>, !.newJobs = pushed]]
                /\ microtasks' = Append(Tail(microtasks), c)
           ELSE /\ saveCalls' = [saveCalls EXCEPT ![c] =
                       [call EXCEPT !.pc = "returned", !.pending = <<>>,
                                    !.newJobs = pushed]]
                /\ microtasks' = Tail(microtasks)
                /\ UNCHANGED <<batchJobs, currentBatchJobId>>
    /\ UNCHANGED storageFrame

NextStorage ==
    \/ SaveBegin
    \/ SaveResume

SpecStorage == InitStorage /\ [][NextStorage]_vars

----------------------------------------------------------------------------
(* Properties of the endpoint, under Spec *)

sampled == pc \notin {"start", "validated", "rejected", "sampler", "analyze"}
corpus == Traces(tracesContent)
IsErrorWith(ev, message) == ev.type = "error" /\ ev.error = <<"Analysis failed: ", message>>

\* C1: once a client disconnect has set the cancellation flag, the endpoint
\* writes no further event of any type to the response.
C1_NoEventAfterCancel == [][clientDisconnected => events' = events]_vars

\* C2: client-initiated cancellation is never reported as an error: the
\* rejection of a model call that the disconnect aborted writes no error event.
C2_CancellationIsNoError ==
    \A k \in 1..Len(events) : ~IsErrorWith(events[k], AbortMessage)

\* C3: reasoning_start is never emitted unless streaming_complete was emitted
\* earlier in the same stream, and no content event follows streaming_complete.
C3_StageOrder ==
    \A k \in 1..Len(events) :
        /\ events[k].type = "reasoning_start"
               => \E m \in 1..(k - 1) : events[m].type = "streaming_complete"
        /\ events[k].type = "content"
               => \A m \in 1..(k - 1) : events[m].type # "streaming_complete"

C3_Witness ==
    /\ HasEvent(events, "reasoning_start")
    /\ HasEvent(events, "content")
    /\ clientDisconnected

\* C4: over a non-empty corpus, when both model calls succeed and the client
\* has not disconnected, the stream is exactly heartbeat, content*,
\* streaming_complete, reasoning_start, complete(tagged traces).
C4_EventSequence ==
    ( /\ pc = "done"
      /\ Len(corpus) > 0
      /\ ~clientDisconnected
      /\ ~HasEvent(events, "error")
      /\ reasoningResponse # <<>>
      /\ reasoningResponse[1].kind # "reject" )
    => LET n == Len(events)
       IN  /\ n >= 4
           /\ events[1] = HeartbeatEvent
           /\ \A k \in 2..(n - 3) : events[k].type = "content"
           /\ events[n - 2].type = "streaming_complete"
           /\ events[n - 1].type = "reasoning_start"
           /\ events[n] = CompleteEvent(tracesWithTags)

C4_Witness ==
    /\ pc = "done"
    /\ Len(corpus) > 0
    /\ ~clientDisconnected
    /\ reasoningResponse # <<>>
    /\ reasoningResponse[1].kind = "args"
    /\ Len(tracesWithTags) > 0
    /\ CountEvents(events, "content") >= 2

\* C5: with an empty corpus the turn makes no call to the completion provider:
\* neither an analysis call nor a reasoning call.
C5_EmptyCorpusNoModelCall ==
    Len(corpus) = 0 => analysisCalls = 0 /\ reasoningCalls = 0

\* C6: when the analysis model call fails, the turn emits exactly one error
\* event as its last event, ends the stream, emits neither streaming_complete,
\* reasoning_start nor complete, issues no reasoning call and does not retry.
C6_AnalysisFailureIsFatal ==
    (\E k \in 1..Len(events) : IsErrorWith(events[k], ProviderMessage))
    => /\ CountEvents(events, "error") = 1
       /\ events[Len(events)].type = "error"
       /\ pc = "done"
       /\ ~HasEvent(events, "streaming_complete")
       /\ ~HasEvent(events, "reasoning_start")
       /\ ~HasEvent(events, "complete")
       /\ reasoningCalls = 0
       /\ analysisCalls = 1

C6_Witness ==
    /\ pc = "done"
    /\ ~clientDisconnected
    /\ \E k \in 1..Len(events) : IsErrorWith(events[k], ProviderMessage)

reasoningFailed(resp) ==
    \/ resp.kind \in {"reject", "no_function_call", "bad_json"}
    \/ resp.kind = "args" /\ resp.selected_traces = <<>>

\* C7: a failure of the reasoning stage is not fatal: selectRelevantTraces
\* returns an empty list without throwing, and the turn ends with a complete
\* event carrying an empty list and without any error event.
C7_ReasoningFailureNonFatal ==
    (pc = "done" /\ reasoningResponse # <<>> /\ reasoningFailed(reasoningResponse[1]))
    => /\ reasoningResult(reasoningResponse[1], reasoningSample)
              = [threw |-> FALSE, value |-> <<>>]
       /\ tracesWithTags = <<>>
       /\ events[Len(events)] = CompleteEvent(<<>>)
       /\ ~HasEvent(events, "error")

C7_Witness ==
    /\ pc = "done"
    /\ reasoningResponse # <<>>
    /\ reasoningResponse[1].kind = "bad_json"
    /\ Len(reasoningSample) > 0

\* C9: for every corpus and every bound N >= 0 supplied with the request, the
\* sample used by the turn has length exactly min(N, len(corpus)).
C9_SampleSize ==
    (sampled /\ maxTracesForReasoning # <<>> /\ maxTracesForReasoning[1] >= 0)
    => Len(selectedTraces) = Min(maxTracesForReasoning[1], Len(corpus))

\* C14: in every turn in which a reasoning request is issued, the sample given
\* to the reasoning stage is the sample the analysis stage rendered into its
\* prompt, pair for pair and in the same order.
C14_SharedSample ==
    reasoningCalls > 0 => reasoningSample = selectedTraces

\* C15: once the complete event is written and the stream has ended, a
\* disconnect writes no further event and issues no model call.
C15_CancelAfterCompleteIsInert ==
    [][(pc = "done" /\ HasEvent(events, "complete"))
       => /\ events' = events
          /\ analysisCalls' = analysisCalls
          /\ reasoningCalls' = reasoningCalls
          /\ pc' = "done"]_vars

C15_Witness ==
    /\ pc = "done"
    /\ clientDisconnected
    /\ reasoningResponse # <<>>
    /\ reasoningResponse[1].kind = "args"
    /\ events[Len(events)].type = "complete"

\* C19: every opened stream starts with a heartbeat event, and the heartbeat
\* is written before any model call is issued.
C19_HeartbeatFirst ==
    /\ httpStatus = 200 => (Len(events) > 0 /\ events[1] = HeartbeatEvent)
    /\ Len(events) > 0 => events[1] = HeartbeatEvent
    /\ (analysisCalls > 0 \/ reasoningCalls > 0)
       => (Len(events) > 0 /\ events[1] = HeartbeatEvent)

C19_Witness ==
    /\ pc = "analysis_call"
    /\ analysisCalls = 1
    /\ events = <<HeartbeatEvent>>

\* C21: once the cancellation signal is set no further fragment is passed to
\* the sink, fragments already passed stay, and the stage still returns
\* normally with the full answer and the sample.
C21_NoFragmentAfterCancel ==
    [][/\ aborted => chunks' = chunks
       /\ Len(chunks') >= Len(chunks)
       /\ SubSeq(chunks', 1, Len(chunks)) = chunks
       /\ (pc = "emit" /\ aborted)
              => /\ pc' = "stage_end"
                 /\ events' = events
                 /\ fullResponse' = fullResponse
                 /\ selectedTraces' = selectedTraces]_vars

C21_Witness ==
    /\ pc = "stage_end"
    /\ aborted
    /\ Len(chunks) > 0
    /\ Len(chunks) < Len(words)
    /\ fullResponse # <<>>

\* C22: a turn issues at most one analysis call and at most one reasoning call,
\* never both in flight, and the reasoning call is issued only after the
\* analysis call has returned successfully and fragment emission has finished.
C22_SequentialCalls ==
    /\ analysisCalls <= 1
    /\ reasoningCalls <= 1
    /\ reasoningCalls > 0
           => /\ analysisCalls = 1
              /\ pc \in {"reasoning_call", "done"}

analysisReturned == pc \in {"stage_end", "reasoning_call"} /\ ~aborted

\* C23 as claimed: in every turn whose analysis stage is not cancelled the
\* fragments passed to the sink concatenate to the answer text the stage returns.
C23_FragmentsAreTheAnswer ==
    analysisReturned => Join(chunks, <<>>) = fullResponse

\* C23: when the corpus has traces and the analysis stage is not cancelled, the
\* fragments passed to the sink concatenate to the answer text, which the stage
\* returns together with the sample it drew; on an empty corpus it returns the
\* sentinel and an empty sample, and passes no fragment to the sink.
C23_OutputPassthrough ==
    analysisReturned
    => IF Len(corpus) > 0
       THEN /\ Join(chunks, <<>>) = fullResponse
            /\ Len(chunks) = Len(words)
            /\ selectedTraces
                   = sampleTraces(corpus, boundOrDefault(maxTracesForReasoning), 0)
       ELSE /\ chunks = <<>>
            /\ fullResponse = SentinelResponse
            /\ selectedTraces = <<>>

C23_Witness ==
    /\ analysisReturned
    /\ Len(chunks) > 1
    /\ Len(selectedTraces) > 1

\* C29: every request that passes validation eventually ends its stream, and
\* a stream that has ended carries exactly one terminal event (complete or
\* error), which is its last event.
C29_StreamEndsWithOneTerminal ==
    /\ [](pc = "done"
            => /\ events[Len(events)].type \in {"complete", "error"}
               /\ CountEvents(events, "complete") + CountEvents(events, "error") = 1)
    /\ (pc = "validated" ~> pc = "done")

C29_Witness ==
    /\ pc = "done"
    /\ clientDisconnected
    /\ reasoningCalls = 0
    /\ events[Len(events)].type = "complete"
    /\ CountEvents(events, "content") > 0

----------------------------------------------------------------------------
(* Properties of the sampler, under SpecSampler *)

\* C8: the sampler is deterministic: two runs of the sampling step on the
\* same corpus and bound yield the same sequence.
C8_Deterministic ==
    \A a, b \in 1..Len(runs) : runs[a] = runs[b]

C8_Witness ==
    /\ Len(runs) = NumRuns
    /\ Len(runs[1]) >= 2
    /\ runs[1][1].originalIndex # 1

\* C10: every element of a sample has an originalIndex in 1..len(corpus), its
\* trace is the corpus line at that position, and no two elements of one
\* sample share an originalIndex.
C10_IndexFidelity ==
    \A r \in 1..Len(runs) :
        /\ \A k \in 1..Len(runs[r]) :
               /\ runs[r][k].originalIndex \in 1..Len(corpus)
               /\ runs[r][k].trace = corpus[runs[r][k].originalIndex]
        /\ \A k, m \in 1..Len(runs[r]) :
               runs[r][k].originalIndex = runs[r][m].originalIndex => k = m

C10_Witness ==
    /\ Len(runs) >= 1
    /\ Len(runs[1]) >= 2
    /\ Len(runs[1]) < Len(corpus)
    /\ \E k \in 1..Len(runs[1]) : runs[1][k].originalIndex # k

----------------------------------------------------------------------------
(* Properties of selectRelevantTraces, under SpecReasoning *)

\* the call returned a list mapped from a non-empty selected_traces
mapped ==
    /\ pc = "returned"
    /\ reasoningResponse # <<>>
    /\ reasoningResponse[1].kind = "args"
    /\ reasoningResponse[1].selected_traces # <<>>
    /\ Len(reasoningResponse[1].selected_traces[1]) > 0
items == reasoningResponse[1].selected_traces[1]
itemTags(item) == IF item.tags = <<>> THEN <<>> ELSE item.tags[1]
inSample(lineNumber) ==
    \E m \in 1..Len(reasoningSample) : reasoningSample[m].originalIndex = lineNumber

\* C11: a returned line number that is the originalIndex of a sample element
\* yields an output item with that element's trace text and the item's tags,
\* whatever the element's position in the sample.
C11_LineMapping ==
    mapped =>
        \A k \in 1..Len(items) : \A m \in 1..Len(reasoningSample) :
            reasoningSample[m].originalIndex = items[k].line_number
            => /\ k <= Len(tracesWithTags)
               /\ tracesWithTags[k].trace = reasoningSample[m].trace
               /\ tracesWithTags[k].tags = itemTags(items[k])

C11_Witness ==
    /\ mapped
    /\ \E k \in 1..Len(items) : \E m \in 1..Len(reasoningSample) :
           /\ reasoningSample[m].originalIndex = items[k].line_number
           /\ items[k].line_number <= Len(reasoningSample)
           /\ reasoningSample[items[k].line_number].trace # reasoningSample[m].trace

\* C12 as stated: an item whose line number is the originalIndex of no sample
\* element has no entry in the returned list.
C12_AbsentLineHasNoEntry ==
    mapped =>
        Len(tracesWithTags)
            = Cardinality({k \in 1..Len(items) : inSample(items[k].line_number)})

\* C12 as amended: such an item is kept as an entry with empty trace text and
\* the item's tags; nothing is raised and the other items are mapped normally.
C12_AbsentLineEmptyTrace ==
    /\ pc # "threw"
    /\ mapped =>
           /\ Len(tracesWithTags) = Len(items)
           /\ \A k \in 1..Len(items) :
                  IF inSample(items[k].line_number)
                  THEN \E m \in 1..Len(reasoningSample) :
                           /\ reasoningSample[m].originalIndex = items[k].line_number
                           /\ tracesWithTags[k].trace = reasoningSample[m].trace
                  ELSE tracesWithTags[k] = [trace |-> <<>>, tags |-> itemTags(items[k])]

C12_Witness ==
    /\ mapped
    /\ Len(reasoningSample) = 2
    /\ \E k, n \in 1..Len(items) :
           /\ items[k].line_number = 99
           /\ inSample(items[n].line_number)

\* C13: without a pre-existing sample the fallback sample is built from the
\* first 250 traces only: it has min(250, len(corpus)) elements, each with an
\* originalIndex of at most 250, and seed and shuffle are those of the
\* truncated list.
C13_FallbackCap ==
    [][(pc = "select" /\ selectedTraces = <<>>)
       => LET limited == Slice0(corpus, FallbackLimit)
              sample == reasoningSample'
          IN  /\ Len(sample) = Min(FallbackLimit, Len(corpus))
              /\ \A k \in 1..Len(sample) :
                     /\ sample[k].originalIndex \in 1..FallbackLimit
                     /\ sample[k].trace = limited[sample[k].originalIndex]
              /\ sample = shuffleArray(tracesWithIndexes(limited),
                                       <<Len(Join(limited, <<>>)) % 100000>>, 0)]_vars

C13_Witness ==
    /\ pc = "returned"
    /\ selectedTraces = <<>>
    /\ Len(corpus) > FallbackLimit
    /\ Len(reasoningSample) = FallbackLimit

\* C17: the list selectRelevantTraces returns is never longer than the page
\* size of 20, whatever number of items the model response contains.
C17_AtMostPageSize ==
    pc = "returned" => Len(tracesWithTags) <= PageSize

----------------------------------------------------------------------------
(* Properties of the endpoint on large corpora, under SpecLarge *)

\* C18: when the request supplies no sampling bound, the sample used for the
\* turn has length min(300, len(corpus)).
C18_SampleOfThreeHundred ==
    (sampled /\ maxTracesForReasoning = <<>>)
    => Len(selectedTraces) = Min(ReadmeSampleSize, Len(corpus))

----------------------------------------------------------------------------
(* Properties of the two stages, under SpecStages *)

\* C20: once the cancellation signal is set before the reasoning request of a
\* turn is issued, no reasoning call is made in that turn; and
\* selectRelevantTraces entered with an aborted signal returns an empty list
\* without calling the model.
C20_CancelledStageStops ==
    [][/\ (clientDisconnected /\ reasoningCalls = 0) => reasoningCalls' = 0
       /\ (pc = "select" /\ aborted)
              => /\ reasoningCalls' = reasoningCalls
                 /\ tracesWithTags' = <<>>
                 /\ pc' = "returned"]_vars

C20_Witness ==
    /\ pc = "returned"
    /\ aborted
    /\ reasoningCalls = 0
    /\ Len(reasoningSample) > 0
    /\ tracesWithTags = <<>>

----------------------------------------------------------------------------
(* Properties of the batch ranking, under SpecBatch *)

\* C16: for every model response, each result of runBatchJobAnalysis has a
\* relevanceScore in [0, 1], and the list is sorted by descending score.
C16_ScoresClampedAndSorted ==
    /\ \A k \in 1..Len(results) :
           /\ ~results[k].relevanceScore.nan
           /\ results[k].relevanceScore.tenths \in 0..ScoreScale
    /\ \A k \in 1..(Len(results) - 1) :
           results[k].relevanceScore.tenths >= results[k + 1].relevanceScore.tenths

keptItems ==
    IF batchResponse = <<>> \/ batchResponse[1].kind # "args"
           \/ batchResponse[1].matching_traces = <<>>
    THEN <<>>
    ELSE batchResponse[1].matching_traces[1]

\* C24: every item whose line number lies outside [1, len(allTraces)] is
\* filtered out; every returned result has a zero-based originalIndex in
\* [0, len(allTraces) - 1], the line number of an item minus one, and its
\* trace is allTraces[originalIndex].
C24_BatchIndexMapping ==
    \A k \in 1..Len(results) :
        /\ ~results[k].originalIndex.half
        /\ results[k].originalIndex.whole \in 0..(Len(corpus) - 1)
        /\ \E n \in 1..Len(keptItems) :
               /\ keptItems[n].line_number # <<>>
               /\ keptItems[n].line_number[1].whole = results[k].originalIndex.whole + 1
        /\ results[k].trace = <<corpus[results[k].originalIndex.whole + 1]>>

\* C25: runBatchJobAnalysis returns at most maxResults results, whatever
\* number of matching items the response contains.
C25_AtMostMaxResults ==
    Len(results) <= maxResultsOrDefault(maxResults)

----------------------------------------------------------------------------
(* Properties of prompt rendering, under SpecRender *)

\* the bindings of a stage
boundPlaceholders(in) ==
    IF in.stage = "analysis"
    THEN {"{conversation}", "{traces}", "{datasets}"}
    ELSE {"{conversation}", "{traces}"}

bindingOf(in, placeholder) ==
    IF placeholder = "{conversation}" THEN in.conversation
    ELSE IF placeholder = "{traces}" THEN in.traces
    ELSE in.datasets

\* every bound placeholder of the template replaced by its value as literal
\* text, everything else verbatim
literalRendering(in) ==
    Join([k \in 1..Len(in.template) |->
             IF in.template[k] \in boundPlaceholders(in)
             THEN bindingOf(in, in.template[k])
             ELSE <<in.template[k]>>], <<>>)

\* C26: rendering replaces every occurrence of each bound placeholder of the
\* template by its binding value as literal text, leaves unbound placeholders
\* verbatim, and never substitutes text that comes from inside a binding value.
C26_LiteralSubstitution ==
    finalPrompt # <<>> => finalPrompt[1] = literalRendering(promptInputs[1])

----------------------------------------------------------------------------
(* Properties of concurrent requests, under SpecPair *)

\* C27: in every interleaving of the requests, a disconnect of one sets only
\* that request's flag and signal, every step leaves the other requests as they
\* are, and each request's events and model calls are those of a run alone.
C27_RequestsIsolated ==
    [][/\ \A k \in DOMAIN requests' : requests'[k] \in aloneStates
       /\ \E k \in DOMAIN requests :
              \A n \in DOMAIN requests \ {k} : requests'[n] = requests[n]]_vars

C27_Witness ==
    /\ requests # <<>>
    /\ requests[1].pc = "done"
    /\ requests[1].clientDisconnected
    /\ requests[1].reasoningCalls = 0
    /\ requests[2].pc = "done"
    /\ ~requests[2].clientDisconnected
    /\ requests[2].reasoningCalls = 1
    /\ requests[2].events[Len(requests[2].events)].type = "complete"

----------------------------------------------------------------------------
(* Properties of the client's batch jobs, under SpecJobs *)

jobSettled(j) == jobRuns.single[j] = "settled" /\ jobs[j].status \in {"completed", "error"}

\* C28: every selected job moves to running and eventually to exactly one of
\* completed or error; the settling of one job's request leaves every other
\* job as it is; and isRunningAll is false again once all selected jobs have
\* settled.
C28_JobsIndependent ==
    /\ [](jobRuns.all = "awaiting"
            => /\ isRunningAll
               /\ \A j \in selectedJobs : jobs[j].status = "running" \/ jobSettled(j))
    /\ [][/\ \A j \in JobIds \ selectedJobs : jobs'[j] = jobs[j]
          /\ \A j \in JobIds : jobSettled(j) => jobs'[j] = jobs[j]
          /\ jobRuns.all = "awaiting"
                 => \E j \in JobIds : \A n \in JobIds \ {j} : jobs'[n] = jobs[n]]_vars
    /\ (jobRuns.all = "awaiting")
           ~> (jobRuns.all = "done" /\ ~isRunningAll /\ \A j \in selectedJobs : jobSettled(j))
    /\ [](jobRuns.all = "done" => ~isRunningAll)

C28_Witness ==
    /\ jobRuns # <<>>
    /\ jobRuns.all = "done"
    /\ ~isRunningAll
    /\ \E j, n \in selectedJobs : jobs[j].status = "error" /\ jobs[n].status = "completed"
    /\ \E j \in JobIds \ selectedJobs : jobs[j].status = "pending"

----------------------------------------------------------------------------
(* Properties of MemStorage, under SpecStorage *)

returnedCalls(analysisId) ==
    {c \in DOMAIN saveCalls :
        saveCalls[c].pc = "returned" /\ saveCalls[c].analysisId = analysisId}

names(entries) == [n \in 1..Len(entries) |-> entries[n].name]

\* C30: once no saveBatchJobs call is pending, the stored jobs of every saved
\* analysis are exactly the jobs of one of its calls, in order and as that
\* call returned them, overlapping calls included; ids are never reused.
C30_SaveIsAtomic ==
    /\ \A m, n \in 1..Len(batchJobs) :
           /\ batchJobs[m].id < currentBatchJobId
           /\ m # n => batchJobs[m].id # batchJobs[n].id
    /\ microtasks = <<>>
           => \A analysisId \in AnalysisIds :
                  returnedCalls(analysisId) # {}
                  => \E c \in returnedCalls(analysisId) :
                         /\ getBatchJobsByAnalysis(batchJobs, analysisId)
                                = saveCalls[c].newJobs
                         /\ names(saveCalls[c].newJobs) = saveCalls[c].jobs

============================================================================
